---- MODULE Spec2Model ----
(***************************************************************************)
(* audiolab-api: the script-creation handler (ScriptCreate.handle) run by  *)
(* several concurrent requests against one R2 bucket and one D1 table.     *)
(* Every await of the handler is one step of a request; the R2 bucket, the *)
(* scripts table and the wall clock read by Date.now() are shared.         *)
(***************************************************************************)
EXTENDS Integers, Sequences, FiniteSets, TLC

VARIABLES now, bucket, rows, rowOwner, req

vars == <<now, bucket, rows, rowOwner, req>>

(* ------------------------------ bounds -------------------------------- *)

\* Number of create requests the worker handles.
MaxReqs == 2
\* Largest reading of the millisecond clock.
MaxClock == 1
\* Number of requests in the behaviours checked for termination.
MaxLiveReqs == 1

Reqs == 1..MaxReqs

(* ------------------------- program constants -------------------------- *)

MAX_TURNS == 10

\* Request bodies: a name (a string, as its characters) and the personas.
Bodies ==
    { [name |-> <<"a", " ", " ", "b">>, personas |-> <<"A">>],
      [name |-> <<"a", "-", "b">>,      personas |-> <<"A", "B", "C">>],
      [name |-> <<"b">>,                personas |-> <<"A", "B">>] }

\* What fetching and parsing the PDF can give: a failure, or the text.
PdfResults ==
    { [ok |-> FALSE, text |-> <<>>],
      [ok |-> TRUE,  text |-> <<>>],
      [ok |-> TRUE,  text |-> <<" ">>],
      [ok |-> TRUE,  text |-> <<" ", "t", " ">>] }

IsSpace(ch) == ch \in {" ", "\t", "\n"}

(* ------------------------------ strings ------------------------------- *)

RECURSIVE TrimLeft(_)
TrimLeft(s) ==
    IF s # <<>> /\ IsSpace(Head(s)) THEN TrimLeft(Tail(s)) ELSE s

RECURSIVE TrimRight(_)
TrimRight(s) ==
    IF s # <<>> /\ IsSpace(s[Len(s)]) THEN TrimRight(SubSeq(s, 1, Len(s) - 1)) ELSE s

\* String.prototype.trim
Trim(s) == TrimRight(TrimLeft(s))

\* name.replace(/\s+/g, "-"): every maximal run of white space becomes one "-".
RECURSIVE ReplaceSpaces(_)
ReplaceSpaces(s) ==
    IF s = <<>> THEN <<>>
    ELSE IF IsSpace(Head(s))
         THEN <<"-">> \o ReplaceSpaces(TrimLeft(s))
         ELSE <<Head(s)>> \o ReplaceSpaces(Tail(s))

\* `generated/${Date.now()}-${name.replace(/\s+/g, "-")}.ssml`
R2FileLink(t, name) ==
    <<"generated/", ToString(t), "-">> \o ReplaceSpaces(name) \o <<".ssml">>

\* JSON.stringify of an array of strings, token by token.
RECURSIVE JsonItems(_)
JsonItems(ps) ==
    IF ps = <<>> THEN <<>>
    ELSE IF Len(ps) = 1 THEN <<"\"", ps[1], "\"">>
    ELSE <<"\"", ps[1], "\"", ",">> \o JsonItems(Tail(ps))

JsonStringify(ps) == <<"[">> \o JsonItems(ps) \o <<"]">>

(* --------------------------- the script text --------------------------- *)

SpeakOpen == <<"<speak>">>
SpeakClose == <<"</speak>">>

\* What the model returns for a prompt: `response.response || ''`, and '' when
\* the call throws.  "text" is a non-empty answer, "none" an empty or failed one.
AiOutcomes == {"text", "none"}

NarratorLine(outcome) ==
    IF outcome = "text" THEN <<"<voice Narrator>">> ELSE <<>>

PersonaLine(persona, outcome) ==
    IF outcome = "text" THEN <<persona>> ELSE <<>>

\* Mutant: every turn is given to the first persona.
CurrentPersonaAlwaysFirst(personas, i) == personas[1]

\* personas[i % personas.length], the array being 0-based.
CurrentPersona(personas, i) == personas[(i % Len(personas)) + 1]

(* ----------------------------- the stores ------------------------------ *)

NoBlobs == [k \in {} |-> <<>>]

\* Mutant: the put leaves nothing but the object it stores.
R2PutReplacesBucket(b, key, value) == [k \in {key} |-> value]

\* R2_BUCKET.put(key, value): the object under key is created or replaced.
R2Put(b, key, value) ==
    [k \in (DOMAIN b) \cup {key} |-> IF k = key THEN value ELSE b[k]]

\* Mutant: the delete reports success and removes nothing.
R2DeleteKeepsObject(b, key) == b

\* Mutant: the delete empties the bucket.
R2DeleteClearsBucket(b, key) == NoBlobs

\* R2_BUCKET.delete(key)
R2Delete(b, key) ==
    [k \in (DOMAIN b) \ {key} |-> b[k]]

\* INSERT INTO scripts (name, r2_file_link, personas) ... RETURNING id, name,
\* r2_file_link, created_at, personas: the row as the table materialises it.
D1Row(table, t, name, link, personasJson) ==
    [id |-> Len(table) + 1, name |-> name, r2_file_link |-> link,
     created_at |-> t, personas |-> personasJson]

(* ------------------------------ responses ------------------------------ *)

NoResponse == [status |-> 0]

\* new ApiException(message, status)
ApiException(message, status) ==
    [api |-> TRUE, message |-> message, status |-> status, code |-> 7000]

PdfFailed == ApiException("Failed to process PDF from url", 400)
NoText == ApiException("Could not extract text from the provided PDF.", 400)
BlobWriteFailed == ApiException("Failed to store generated script in R2.", 500)
MetadataWriteFailed ==
    ApiException("Failed to save script metadata to the database.", 500)

\* One entry of a response's errors array.
ErrorEntry(code, message) == [code |-> code, message |-> message]

\* Mutant: every exception gets the generic 500 answer.
OnErrorAlwaysInternal(err) ==
    [status |-> 500, success |-> FALSE,
     errors |-> <<ErrorEntry(7000, "Internal Server Error")>>]

\* app.onError
OnError(err) ==
    IF err.api
    THEN [status |-> err.status, success |-> FALSE,
          errors |-> <<ErrorEntry(err.code, err.message)>>]
    ELSE [status |-> 500, success |-> FALSE,
          errors |-> <<ErrorEntry(7000, "Internal Server Error")>>]

\* c.status(201); return { success: true, result: info }
Created(info) == [status |-> 201, success |-> TRUE, result |-> info]

(* ------------------------------- state --------------------------------- *)

NoLink == <<>>

Idle ==
    [pc |-> "idle", name |-> <<>>, personas |-> <<>>, articleText |-> <<>>,
     fullScriptContent |-> <<>>, i |-> 0, r2_file_link |-> NoLink,
     calls |-> <<>>, aiCalls |-> <<>>, log |-> <<>>, response |-> NoResponse,
     reused |-> FALSE]

Init ==
    /\ now = 0
    /\ bucket = NoBlobs
    /\ rows = <<>>
    /\ rowOwner = <<>>
    /\ req = [r \in Reqs |-> Idle]

Set(r, new) == req' = [req EXCEPT ![r] = new]

\* History, read by no step: at the put, a row of the table already names the key.
KeyInUse(link) == \E n \in 1..Len(rows) : rows[n].r2_file_link = link

\* The handler throws: app.onError answers the request.
Throw(r, cur, err) ==
    Set(r, [cur EXCEPT !.pc = "done", !.response = OnError(err)])

(* ------------------------------ actions -------------------------------- *)

\* Date.now() advances.
Tick ==
    /\ now < MaxClock
    /\ now' = now + 1
    /\ UNCHANGED <<bucket, rows, rowOwner, req>>

\* A POST /scripts arrives with a validated body.  Requests are numbered in
\* their order of arrival.
Receive(r) ==
    /\ req[r].pc = "idle"
    /\ \A q \in Reqs : q < r => req[q].pc # "idle"
    /\ \E body \in Bodies :
         Set(r, [req[r] EXCEPT !.pc = "extract", !.name = body.name,
                               !.personas = body.personas])
    /\ UNCHANGED <<now, bucket, rows, rowOwner>>

\* Mutant: the empty-text check is left out.
ExtractTextSkipsEmptyCheck(r) ==
    /\ req[r].pc = "extract"
    /\ \E pdf \in PdfResults :
         IF ~pdf.ok
         THEN Throw(r, req[r], PdfFailed)
         ELSE Set(r, [req[r] EXCEPT !.pc = "narrator",
                                    !.articleText = Trim(pdf.text),
                                    !.fullScriptContent = SpeakOpen])
    /\ UNCHANGED <<now, bucket, rows, rowOwner>>

\* extractTextFromPdf and the empty-text check.
ExtractText(r) ==
    /\ req[r].pc = "extract"
    /\ \E pdf \in PdfResults :
         IF ~pdf.ok
         THEN Throw(r, req[r], PdfFailed)
         ELSE IF Trim(pdf.text) = <<>>
              THEN Throw(r, req[r], NoText)
              ELSE Set(r, [req[r] EXCEPT !.pc = "narrator",
                                         !.articleText = Trim(pdf.text),
                                         !.fullScriptContent = SpeakOpen])
    /\ UNCHANGED <<now, bucket, rows, rowOwner>>

\* The narrator introduction: a failure is logged and the script goes on.
Narrator(r) ==
    /\ req[r].pc = "narrator"
    /\ \E outcome \in AiOutcomes :
         Set(r, [req[r] EXCEPT
                   !.pc = "dialogue",
                   !.i = 0,
                   !.aiCalls = Append(@, "Narrator"),
                   !.fullScriptContent = @ \o NarratorLine(outcome)])
    /\ UNCHANGED <<now, bucket, rows, rowOwner>>

\* The loop is left: the script is closed, the storage key is derived from the
\* clock as it reads now, and the put is issued, all before the next await.
CloseScript(cur) ==
    [cur EXCEPT !.pc = "put", !.fullScriptContent = @ \o SpeakClose,
                !.r2_file_link = R2FileLink(now, cur.name)]

\* Mutant: a persona that gives nothing ends the request with an error.
TurnFailureThrows(r) ==
    /\ req[r].pc = "dialogue"
    /\ req[r].i < MAX_TURNS
    /\ LET cur == req[r]
           persona == CurrentPersona(cur.personas, cur.i)
           called == [cur EXCEPT !.aiCalls = Append(@, persona)]
       IN \E outcome \in AiOutcomes :
            IF PersonaLine(persona, outcome) # <<>>
            THEN LET said == [called EXCEPT
                                !.fullScriptContent = @ \o PersonaLine(persona, outcome),
                                !.i = @ + 1]
                 IN Set(r, IF said.i < MAX_TURNS THEN said ELSE CloseScript(said))
            ELSE Throw(r, called, ApiException("Failed to generate the script.", 500))
    /\ UNCHANGED <<now, bucket, rows, rowOwner>>

\* One turn of the dialogue loop: generatePersonaResponse and what follows.
Turn(r) ==
    /\ req[r].pc = "dialogue"
    /\ req[r].i < MAX_TURNS
    /\ LET cur == req[r]
           persona == CurrentPersona(cur.personas, cur.i)
           called == [cur EXCEPT !.aiCalls = Append(@, persona)]
       IN \E outcome \in AiOutcomes :
            IF PersonaLine(persona, outcome) # <<>>
            THEN LET said == [called EXCEPT
                                !.fullScriptContent = @ \o PersonaLine(persona, outcome),
                                !.i = @ + 1]
                 IN Set(r, IF said.i < MAX_TURNS THEN said ELSE CloseScript(said))
            ELSE Set(r, CloseScript(called))
    /\ UNCHANGED <<now, bucket, rows, rowOwner>>

\* R2_BUCKET.put succeeds: the object is stored under the key.
PutOk(r) ==
    /\ req[r].pc = "put"
    /\ LET link == req[r].r2_file_link
       IN /\ bucket' = R2Put(bucket, link, req[r].fullScriptContent)
          /\ Set(r, [req[r] EXCEPT !.pc = "insert",
                                   !.reused = KeyInUse(link),
                                   !.calls = Append(@, "put ok")])
    /\ UNCHANGED <<now, rows, rowOwner>>

\* Mutant: the catch of the put stores the object all the same.
PutFailStoresObject(r) ==
    /\ req[r].pc = "put"
    /\ LET link == req[r].r2_file_link
           cur == [req[r] EXCEPT !.reused = KeyInUse(link),
                                 !.calls = Append(@, "put failed"),
                                 !.log = Append(@, "Error uploading to R2:")]
       IN /\ bucket' = R2Put(bucket, link, req[r].fullScriptContent)
          /\ Throw(r, cur, BlobWriteFailed)
    /\ UNCHANGED <<now, rows, rowOwner>>

\* R2_BUCKET.put throws.
PutFail(r) ==
    /\ req[r].pc = "put"
    /\ LET link == req[r].r2_file_link
           cur == [req[r] EXCEPT !.reused = KeyInUse(link),
                                 !.calls = Append(@, "put failed"),
                                 !.log = Append(@, "Error uploading to R2:")]
       IN Throw(r, cur, BlobWriteFailed)
    /\ UNCHANGED <<now, bucket, rows, rowOwner>>

\* Mutant: the row is bound to a link derived again at the insert.
InsertOkDerivesLinkAgain(r) ==
    /\ req[r].pc = "insert"
    /\ LET info == D1Row(rows, now, req[r].name, R2FileLink(now, req[r].name),
                         JsonStringify(req[r].personas))
       IN /\ rows' = Append(rows, info)
          /\ rowOwner' = Append(rowOwner, r)
          /\ Set(r, [req[r] EXCEPT !.pc = "done",
                                   !.calls = Append(@, "insert ok"),
                                   !.response = Created(info)])
    /\ UNCHANGED <<now, bucket>>

\* The INSERT ... RETURNING succeeds: 201 with the row.
InsertOk(r) ==
    /\ req[r].pc = "insert"
    /\ LET info == D1Row(rows, now, req[r].name, req[r].r2_file_link,
                         JsonStringify(req[r].personas))
       IN /\ rows' = Append(rows, info)
          /\ rowOwner' = Append(rowOwner, r)
          /\ Set(r, [req[r] EXCEPT !.pc = "done",
                                   !.calls = Append(@, "insert ok"),
                                   !.response = Created(info)])
    /\ UNCHANGED <<now, bucket>>

\* Mutant: the catch of the insert runs the insert once more.
InsertFailRetries(r) ==
    /\ req[r].pc = "insert"
    /\ Set(r, [req[r] EXCEPT !.calls = Append(@, "insert failed"),
                             !.log = Append(@, "Error inserting into D1:")])
    /\ Len(req[r].calls) < 3
    /\ UNCHANGED <<now, bucket, rows, rowOwner>>

\* Mutant: the catch of the insert answers 201 without a row.
InsertFailAnswersCreated(r) ==
    /\ req[r].pc = "insert"
    /\ Set(r, [req[r] EXCEPT !.pc = "done",
                             !.calls = Append(@, "insert failed"),
                             !.response = Created(
                                D1Row(rows, now, req[r].name, req[r].r2_file_link,
                                      JsonStringify(req[r].personas)))])
    /\ UNCHANGED <<now, bucket, rows, rowOwner>>

\* The INSERT throws: the handler goes on to delete the object it wrote.
InsertFail(r) ==
    /\ req[r].pc = "insert"
    /\ Set(r, [req[r] EXCEPT !.pc = "delete",
                             !.calls = Append(@, "insert failed"),
                             !.log = Append(@, "Error inserting into D1:")])
    /\ UNCHANGED <<now, bucket, rows, rowOwner>>

\* Mutant: the clean-up error is logged although the delete succeeded.
DeleteOkLogsFailure(r) ==
    /\ req[r].pc = "delete"
    /\ bucket' = R2Delete(bucket, req[r].r2_file_link)
    /\ Throw(r, [req[r] EXCEPT
                   !.calls = Append(@, "delete ok"),
                   !.log = Append(@, "Error cleaning up orphaned R2 file:")],
             MetadataWriteFailed)
    /\ UNCHANGED <<now, rows, rowOwner>>

\* R2_BUCKET.delete succeeds.
DeleteOk(r) ==
    /\ req[r].pc = "delete"
    /\ bucket' = R2Delete(bucket, req[r].r2_file_link)
    /\ Throw(r, [req[r] EXCEPT !.calls = Append(@, "delete ok")],
             MetadataWriteFailed)
    /\ UNCHANGED <<now, rows, rowOwner>>

\* Mutant: the rejected delete is awaited again and never settles.
DeleteFailNeverSettles(r) ==
    /\ req[r].pc = "delete"
    /\ Set(r, [req[r] EXCEPT
                 !.pc = "delete again",
                 !.calls = Append(@, "delete failed"),
                 !.log = Append(@, "Error cleaning up orphaned R2 file:")])
    /\ UNCHANGED <<now, bucket, rows, rowOwner>>

\* Mutant: the error of the delete is thrown in place of the metadata error.
DeleteFailMasksError(r) ==
    /\ req[r].pc = "delete"
    /\ Throw(r, [req[r] EXCEPT
                   !.calls = Append(@, "delete failed"),
                   !.log = Append(@, "Error cleaning up orphaned R2 file:")],
             ApiException("Failed to delete the orphaned R2 file.", 500))
    /\ UNCHANGED <<now, bucket, rows, rowOwner>>

\* R2_BUCKET.delete throws: logged, and the metadata error is thrown all the same.
DeleteFail(r) ==
    /\ req[r].pc = "delete"
    /\ Throw(r, [req[r] EXCEPT
                   !.calls = Append(@, "delete failed"),
                   !.log = Append(@, "Error cleaning up orphaned R2 file:")],
             MetadataWriteFailed)
    /\ UNCHANGED <<now, bucket, rows, rowOwner>>

Next ==
    \/ Tick
    \/ \E r \in Reqs : Receive(r)
    \/ \E r \in Reqs : ExtractText(r)
    \/ \E r \in Reqs : Narrator(r)
    \/ \E r \in Reqs : Turn(r)
    \/ \E r \in Reqs : PutOk(r)
    \/ \E r \in Reqs : PutFail(r)
    \/ \E r \in Reqs : InsertOk(r)
    \/ \E r \in Reqs : InsertFail(r)
    \/ \E r \in Reqs : DeleteOk(r)
    \/ \E r \in Reqs : DeleteFail(r)

Spec == Init /\ [][Next]_vars

\* A call to a store that a request awaits returns, with success or failure.
StoreAnswers(r) ==
    \/ PutOk(r) \/ PutFail(r)
    \/ InsertOk(r) \/ InsertFail(r)
    \/ DeleteOk(r) \/ DeleteFail(r)

\* The requests of the behaviours checked for termination.
LiveReqs == 1..MaxLiveReqs

LiveNext ==
    \/ Tick
    \/ \E r \in LiveReqs : Receive(r)
    \/ \E r \in LiveReqs : ExtractText(r)
    \/ \E r \in LiveReqs : Narrator(r)
    \/ \E r \in LiveReqs : Turn(r)
    \/ \E r \in LiveReqs : StoreAnswers(r)

\* The stores leave no awaited call unanswered for ever.
StoresAnswer == \A r \in LiveReqs : WF_vars(StoreAnswers(r))

FairSpec == Init /\ [][LiveNext]_vars /\ StoresAnswer

(* ------------------------------- claims -------------------------------- *)

Started(r) == req[r].calls # <<>>
Done(r) == req[r].pc = "done"
Link(r) == req[r].r2_file_link

\* The commit's precondition: no other request derived the same storage key.
FreshKey(r) ==
    /\ Link(r) # NoLink
    /\ \A q \in Reqs \ {r} : Link(q) # Link(r)

RowsOf(r) == {n \in 1..Len(rows) : rowOwner[n] = r}
RowsLinking(link) == {n \in 1..Len(rows) : rows[n].r2_file_link = link}

PutFailedTrace == <<"put failed">>
CommittedTrace == <<"put ok", "insert ok">>
CompensatedTrace == <<"put ok", "insert failed", "delete ok">>
OrphanedTrace == <<"put ok", "insert failed", "delete failed">>

\* C1: every row of the scripts table names a storage key under which the
\* bucket currently holds an object.
C1_NoDanglingRecord ==
    \A n \in 1..Len(rows) : rows[n].r2_file_link \in DOMAIN bucket

\* C2: a request whose put failed ends with the blob-write error, has issued
\* neither an insert nor a delete, owns no row, and (its key being its own)
\* leaves no object under its key.
C2_BlobFailureLeavesNothing ==
    \A r \in Reqs :
        (Started(r) /\ req[r].calls[1] = "put failed") =>
            /\ Done(r)
            /\ req[r].calls = PutFailedTrace
            /\ req[r].response = OnError(BlobWriteFailed)
            /\ RowsOf(r) = {}
            /\ FreshKey(r) => Link(r) \notin DOMAIN bucket

C2_Witness ==
    \E r \in Reqs :
        /\ req[r].calls = PutFailedTrace
        /\ FreshKey(r)
        /\ bucket # NoBlobs

\* C3: the step on which the compensating delete succeeds ends the request
\* with the metadata-write error and leaves no object under the key it wrote.
C3_MetadataFailureCompensated ==
    [][\A r \in Reqs :
          (req[r].pc = "delete" /\ req'[r].calls = CompensatedTrace) =>
              /\ req'[r].pc = "done"
              /\ req'[r].response = OnError(MetadataWriteFailed)
              /\ Link(r) \notin DOMAIN bucket'
              /\ RowsOf(r)' = {}]_vars

C3_Witness ==
    \E r \in Reqs :
        /\ req[r].calls = CompensatedTrace
        /\ Done(r)
        /\ Link(r) \notin DOMAIN bucket

\* The answer names the failed clean-up beside the metadata-write error.
CarriesCompensationFailed(response) ==
    /\ "errors" \in DOMAIN response
    /\ \E n \in 1..Len(response.errors) :
         response.errors[n].message # MetadataWriteFailed.message

\* C4 as claimed: when the insert and the delete both fail, the error the
\* request ends with is the metadata-write error with the failed compensation
\* attached to it.
C4_CompensationFailedAttached ==
    \A r \in Reqs :
        (Done(r) /\ req[r].calls = OrphanedTrace) =>
            /\ req[r].response.status = MetadataWriteFailed.status
            /\ CarriesCompensationFailed(req[r].response)

\* C4, amended: when the insert and the delete both fail the request still
\* ends with the metadata-write error, the very answer of a request whose
\* delete succeeded; the failed clean-up is reported on its log only; and (its
\* key being its own) the object stays under the key with no row naming it.
C4_CompensationFailureReported ==
    \A r \in Reqs :
        req[r].calls = OrphanedTrace =>
            /\ Done(r)
            /\ req[r].response = OnError(MetadataWriteFailed)
            /\ req[r].log = <<"Error inserting into D1:",
                              "Error cleaning up orphaned R2 file:">>
            /\ FreshKey(r) =>
                 /\ Link(r) \in DOMAIN bucket
                 /\ RowsLinking(Link(r)) = {}

C4_Witness ==
    \E r \in Reqs :
        /\ req[r].calls = OrphanedTrace
        /\ FreshKey(r)
        /\ Link(r) \in DOMAIN bucket
        /\ rows # <<>>

\* C5: a request whose storage key a committed row already names fails at the
\* put with the blob-write error.
C5_KeyReuseRejected ==
    \A r \in Reqs :
        req[r].reused =>
            /\ req[r].calls = PutFailedTrace
            /\ req[r].response = OnError(BlobWriteFailed)

\* C6: a request has answered 201 exactly when it put and inserted, and then
\* the result is the row the table holds for it, id and created_at assigned;
\* on every other path the answer carries errors and no result, and the table
\* holds no row of the request.
C6_RecordOrErrorNeverBoth ==
    \A r \in Reqs :
        /\ Cardinality(RowsOf(r)) <= 1
        /\ ~Done(r) => req[r].response = NoResponse /\ RowsOf(r) = {}
        /\ Done(r) =>
             IF req[r].calls = CommittedTrace
             THEN /\ DOMAIN req[r].response = {"status", "success", "result"}
                  /\ req[r].response.status = 201
                  /\ req[r].response.success
                  /\ LET info == req[r].response.result
                     IN /\ DOMAIN info = {"id", "name", "r2_file_link",
                                          "created_at", "personas"}
                        /\ info.id \in 1..Len(rows)
                        /\ info.created_at \in 0..now
                        /\ rows[info.id] = info
                        /\ RowsOf(r) = {info.id}
             ELSE /\ DOMAIN req[r].response = {"status", "success", "errors"}
                  /\ req[r].response.status \in {400, 500}
                  /\ ~req[r].response.success
                  /\ RowsOf(r) = {}

C6_Witness ==
    \E r, q \in Reqs :
        /\ req[r].calls = OrphanedTrace
        /\ req[q].calls = CommittedTrace
        /\ Done(q)
        /\ Done(r)
        /\ Len(rows) = 1

\* C7: a request that put and inserted under a key of its own answers with a
\* row whose r2_file_link is the key of the put, the bucket holds the script
\* it generated under that key, and it issued no delete.
C7_HappyPath ==
    \A r \in Reqs :
        (Done(r) /\ req[r].response.status = 201 /\ FreshKey(r)) =>
            /\ req[r].calls = CommittedTrace
            /\ req[r].response.result.r2_file_link = Link(r)
            /\ req[r].response.result.r2_file_link \in DOMAIN bucket
            /\ bucket[req[r].response.result.r2_file_link]
                 = req[r].fullScriptContent
            /\ req[r].fullScriptContent[1] = SpeakOpen[1]
            /\ req[r].fullScriptContent[Len(req[r].fullScriptContent)]
                 = SpeakClose[1]

C7_Witness ==
    \E r \in Reqs :
        /\ Done(r)
        /\ req[r].response.status = 201
        /\ FreshKey(r)
        /\ req[r].response.result.created_at = MaxClock
        /\ Link(r) = R2FileLink(0, req[r].name)
        /\ Len(req[r].fullScriptContent) = MAX_TURNS + 3

\* C8: the calls of a request to the stores are a prefix of put / insert /
\* delete in that order, each issued once and only after the one before it
\* ended the way that leads to it; an ended request made one of the four
\* complete traces (or none, when it ended before the put).
C8_SequentialNoRetry ==
    \A r \in Reqs :
        /\ req[r].pc \in {"idle", "extract", "narrator", "dialogue", "put"}
             => req[r].calls = <<>>
        /\ req[r].pc = "insert" => req[r].calls = <<"put ok">>
        /\ req[r].pc = "delete" => req[r].calls = <<"put ok", "insert failed">>
        /\ Done(r) =>
             req[r].calls \in {<<>>, PutFailedTrace, CommittedTrace,
                               CompensatedTrace, OrphanedTrace}
        /\ (Done(r) /\ req[r].calls = <<>>) => req[r].response.status = 400

C8_Witness ==
    /\ \E r \in Reqs : req[r].calls = CompensatedTrace
    /\ \E r \in Reqs : req[r].pc = "delete"

\* What the calls a request has made so far leave under its key when they are
\* applied to an empty bucket.
RECURSIVE AloneBucket(_, _, _)
AloneBucket(calls, link, content) ==
    IF calls = <<>> THEN NoBlobs
    ELSE LET before == AloneBucket(SubSeq(calls, 1, Len(calls) - 1), link, content)
             last == calls[Len(calls)]
         IN IF last = "put ok" THEN R2Put(before, link, content)
            ELSE IF last = "delete ok" THEN R2Delete(before, link)
            ELSE before

\* The rows, less the id and created_at the table assigns, that the calls of
\* a request leave when they are applied to an empty table.
AloneRows(r) ==
    IF "insert ok" \in {req[r].calls[n] : n \in 1..Len(req[r].calls)}
    THEN {[name |-> req[r].name, r2_file_link |-> Link(r),
           personas |-> JsonStringify(req[r].personas)]}
    ELSE {}

Stripped(row) ==
    [name |-> row.name, r2_file_link |-> row.r2_file_link,
     personas |-> row.personas]

\* C9: for a request whose key no other request shares, the object under its
\* key and the rows naming its key are, whatever the other requests did and
\* in whatever order, what its own calls leave when it runs alone.
C9_DistinctKeysDoNotInteract ==
    \A r \in Reqs :
        FreshKey(r) =>
            LET alone == AloneBucket(req[r].calls, Link(r), req[r].fullScriptContent)
            IN /\ (Link(r) \in DOMAIN bucket) = (Link(r) \in DOMAIN alone)
               /\ Link(r) \in DOMAIN bucket => bucket[Link(r)] = alone[Link(r)]
               /\ {Stripped(rows[n]) : n \in RowsLinking(Link(r))} = AloneRows(r)
               /\ Cardinality(RowsLinking(Link(r))) = Cardinality(AloneRows(r))
               /\ RowsLinking(Link(r)) = RowsOf(r)

C9_Witness ==
    \E r, q \in Reqs :
        /\ r # q
        /\ FreshKey(r) /\ FreshKey(q)
        /\ req[r].calls = CommittedTrace
        /\ req[q].calls = CompensatedTrace
        /\ rowOwner = <<r>>
        /\ req[r].fullScriptContent # req[q].fullScriptContent

Orphans == {k \in DOMAIN bucket : RowsLinking(k) = {}}
AllKeysFresh == \A r \in Reqs : Link(r) # NoLink => FreshKey(r)
InCommit(r) == req[r].pc \in {"insert", "delete"}

\* C10: with every key used once, the objects no row names are those of the
\* requests whose insert and delete both failed and those of the requests
\* still between their put and their end: one each, so that once no commit is
\* under way their number is the number of such failed requests.
C10_OrphanPerDoubleFailure ==
    AllKeysFresh =>
        /\ Orphans = {Link(r) : r \in {q \in Reqs :
                                         req[q].calls = OrphanedTrace \/ InCommit(q)}}
        /\ (\A r \in Reqs : ~InCommit(r)) =>
             Cardinality(Orphans)
               = Cardinality({r \in Reqs : req[r].calls = OrphanedTrace})

C10_Witness ==
    /\ AllKeysFresh
    /\ \A r \in Reqs : Done(r)
    /\ Cardinality(Orphans) = 1
    /\ \E r \in Reqs : req[r].calls \in {CommittedTrace, CompensatedTrace,
                                         PutFailedTrace}

Elements(seq) == {seq[n] : n \in 1..Len(seq)}
CleanupFailedLogged(r) ==
    "Error cleaning up orphaned R2 file:" \in Elements(req[r].log)

\* C11: the failed clean-up is reported (on the log) exactly by the requests
\* whose compensating delete was issued and failed, and then always beside
\* the metadata-write error: the request has ended with that error and logged
\* the failed insert first; no request that answered 201 or ended with the
\* blob-write error reports it.
C11_CompensationFailedOnlyWithMetadataFailure ==
    \A r \in Reqs :
        /\ CleanupFailedLogged(r) <=> "delete failed" \in Elements(req[r].calls)
        /\ CleanupFailedLogged(r) =>
             /\ Done(r)
             /\ req[r].response = OnError(MetadataWriteFailed)
             /\ req[r].log = <<"Error inserting into D1:",
                               "Error cleaning up orphaned R2 file:">>
        /\ (Done(r) /\ req[r].response # OnError(MetadataWriteFailed)) =>
             ~CleanupFailedLogged(r)

C11_Witness ==
    /\ \E r \in Reqs : CleanupFailedLogged(r) /\ Done(r)
    /\ \E r \in Reqs : req[r].calls = CompensatedTrace /\ ~CleanupFailedLogged(r)

Stepped(r) == req'[r] # req[r]

\* C12: no step changes or removes a row the table holds; a step of a request
\* leaves every object under another key as it is, neither creating,
\* replacing nor deleting one; under a key of its own a request never replaces
\* an object that is there; and the only object a request deletes is the one
\* it put itself, after its insert failed.
C12_FrameOfCommit ==
    [][/\ Len(rows') >= Len(rows)
       /\ SubSeq(rows', 1, Len(rows)) = rows
       /\ \A r \in Reqs :
            Stepped(r) =>
              /\ \A k \in (DOMAIN bucket) \ {Link(r)} :
                   k \in DOMAIN bucket' /\ bucket'[k] = bucket[k]
              /\ \A k \in (DOMAIN bucket') \ {Link(r)} : k \in DOMAIN bucket
              /\ (FreshKey(r)' /\ Link(r) \in DOMAIN bucket
                               /\ Link(r) \in DOMAIN bucket')
                   => bucket'[Link(r)] = bucket[Link(r)]
              /\ (Link(r) \in DOMAIN bucket /\ Link(r) \notin DOMAIN bucket')
                   => req[r].calls = <<"put ok", "insert failed">>]_vars

C12_Witness ==
    \E r, q \in Reqs :
        /\ r # q
        /\ FreshKey(r) /\ FreshKey(q)
        /\ req[r].calls = CompensatedTrace
        /\ req[q].calls = CommittedTrace
        /\ Link(q) \in DOMAIN bucket
        /\ rowOwner = <<q>>
        /\ rows[1].created_at = 0
        /\ now = MaxClock

\* C13: when every store call returns, a request that has issued its put
\* reaches its end: a 201 with the row, the blob-write error or the
\* metadata-write error.
C13_CommitTerminates ==
    \A r \in LiveReqs :
        (req[r].pc = "put") ~>
            (Done(r) /\ req[r].calls \in {PutFailedTrace, CommittedTrace,
                                          CompensatedTrace, OrphanedTrace})

C13_Witness ==
    \E r \in LiveReqs : Done(r) /\ req[r].calls = OrphanedTrace /\ now = MaxClock

ReachedPut(r) == req[r].pc \in {"put", "insert", "delete"} \/ Started(r)

\* C14: two requests that reach the blob write use different storage keys.
C14_KeysNeverCollide ==
    \A r, q \in Reqs :
        (r # q /\ ReachedPut(r) /\ ReachedPut(q)) => Link(r) # Link(q)

\* The persona generation calls a request has made, in order: its model calls
\* after the narrator's.
PersonaCalls(r) == IF req[r].aiCalls = <<>> THEN <<>> ELSE Tail(req[r].aiCalls)

\* The lines of the personas in the script of a request.
PersonaLines(r) ==
    SelectSeq(req[r].fullScriptContent,
              LAMBDA line : line \notin {SpeakOpen[1], SpeakClose[1],
                                         NarratorLine("text")[1]})

LoopLeft(r) == req[r].pc \in {"put", "insert", "delete"} \/ Started(r)

\* C15: a request makes at most ten persona generation calls; its n-th call
\* (turn n - 1) goes to personas[(n - 1) mod personas.length]; while the loop
\* runs every call so far gave a line; and once the loop is left either all
\* ten calls gave a line or only the last call gave none.
C15_DialogueLoop ==
    \A r \in Reqs :
        LET calls == PersonaCalls(r)
            lines == PersonaLines(r)
        IN /\ Len(calls) <= MAX_TURNS
           /\ \A n \in 1..Len(calls) :
                calls[n] = req[r].personas[((n - 1) % Len(req[r].personas)) + 1]
           /\ req[r].pc = "dialogue" =>
                /\ Len(calls) = req[r].i
                /\ lines = calls
                /\ req[r].i < MAX_TURNS
           /\ LoopLeft(r) =>
                /\ Len(calls) >= 1
                /\ \/ lines = calls /\ Len(calls) = MAX_TURNS
                   \/ lines = SubSeq(calls, 1, Len(calls) - 1)

C15_Witness ==
    /\ \E r \in Reqs :
         /\ LoopLeft(r)
         /\ Len(PersonaCalls(r)) = MAX_TURNS
         /\ Len(req[r].personas) = 3
         /\ Len(PersonaLines(r)) = MAX_TURNS - 1
    /\ \E r \in Reqs :
         /\ LoopLeft(r)
         /\ Len(PersonaLines(r)) = MAX_TURNS
         /\ Len(req[r].personas) = 2

Truncated(r) == Len(PersonaCalls(r)) > Len(PersonaLines(r))

\* The row a 201 carries, going by the request body, the key and what the
\* table assigns alone.
RowFor(r, id, t) ==
    [id |-> id, name |-> req[r].name, r2_file_link |-> Link(r),
     created_at |-> t, personas |-> JsonStringify(req[r].personas)]

C17_PdfFailureTouchesNothing ==
    [][\A r \in Reqs :
         /\ (req[r].pc = "extract" /\ Stepped(r)) =>
              \/ /\ req'[r].pc = "done"
                 /\ req'[r].response \in {OnError(PdfFailed), OnError(NoText)}
                 /\ req'[r].response.status = 400
                 /\ req'[r].response.success = FALSE
                 /\ req'[r].aiCalls = <<>>
                 /\ req'[r].calls = <<>>
                 /\ bucket' = bucket
                 /\ rows' = rows
              \/ /\ req'[r].pc = "narrator"
                 /\ Trim(req'[r].articleText) # <<>>
                 /\ req'[r].aiCalls = <<>>
         /\ (Done(r) /\ req[r].response.status = 400) =>
              /\ req[r].aiCalls = <<>>
              /\ req[r].calls = <<>>
              /\ RowsOf(r) = {}
              /\ Link(r) = NoLink
              /\ req'[r] = req[r]
      ]_vars

C17_Witness ==
    \E r, q \in Reqs :
        /\ req[q].calls = CommittedTrace
        /\ Done(r)
        /\ req[r].response = OnError(NoText)
        /\ req[r].aiCalls = <<>>
        /\ Link(q) \in DOMAIN bucket
        /\ Len(rows) = 1

\* An exception that is not an ApiException.
PlainError == [api |-> FALSE, message |-> "boom"]

GenericInternal ==
    [status |-> 500, success |-> FALSE,
     errors |-> <<ErrorEntry(7000, "Internal Server Error")>>]

====
